---------------------------- MODULE Spec2Model ----------------------------
(***************************************************************************)
(* inkmap: the per-layer render tasks of src/printer/layers.js, the tile   *)
(* queue they drive, the worker Image polyfill, and the job status stream  *)
(* of the public API (getJobStatus).                                       *)
(*                                                                         *)
(* One job is modelled: its print spec lists the layers, every layer task  *)
(* is created from the same root frame state (so every tiled layer uses    *)
(* the tile queue of that frame state), then subscribed, then driven by    *)
(* the 500 ms interval, by the throttle timer and by the network.          *)
(*                                                                         *)
(* Progress values are kept as exact fractions n/d; d = 0 stands for the   *)
(* two non-finite results a division by a zero tile count produces in      *)
(* JavaScript (NaN and -Infinity).                                         *)
(***************************************************************************)
EXTENDS Integers, Sequences, FiniteSets, TLC

(***************************************************************************)
(* Bounds of the model.                                                    *)
(***************************************************************************)
MaxLayers == 2
MaxTiles == 2
BigTileCount == 1001
MaxTicksPerWindow == 2

(***************************************************************************)
(* Program constants.                                                      *)
(***************************************************************************)
MaxTotalLoading == 12
MaxNewLoads == 4
NudgePerMille == 1

(***************************************************************************)
(* Progress arithmetic (JavaScript numbers, as exact fractions).           *)
(***************************************************************************)
\* (the arguments of each step are bound as values, evaluated once)
RECURSIVE Gcd(_, _)
Gcd(a, b) ==
  IF b = 0 THEN a
  ELSE CHOOSE g \in {Gcd(x, y) : x \in {b}, y \in {a % b}} : TRUE
Abs(a) == IF a < 0 THEN 0 - a ELSE a
\* the fraction n/d in lowest terms (d > 0), or a non-finite value (d = 0)
Num(n, d) ==
  IF d = 0 THEN [n |-> n, d |-> 0]
  ELSE LET g == Gcd(Abs(n), d) IN [n |-> n \div g, d |-> d \div g]
NaN == Num(0, 0)
NegInf == Num(-1, 0)
Zero == Num(0, 1)
One == Num(1, 1)

IsNaN(p) == p.d = 0 /\ p.n = 0
IsFinite(p) == p.d > 0
\* p === 1
IsOne(p) == p.d > 0 /\ p.n = p.d
\* a < b
Lt(a, b) ==
  IF IsNaN(a) \/ IsNaN(b) THEN FALSE
  ELSE IF ~IsFinite(a) THEN IsFinite(b)
  ELSE IF ~IsFinite(b) THEN FALSE
  ELSE a.n * b.d < b.n * a.d
\* a <= b
Leq(a, b) ==
  IF IsNaN(a) \/ IsNaN(b) THEN FALSE
  ELSE IF ~IsFinite(a) THEN TRUE
  ELSE IF ~IsFinite(b) THEN FALSE
  ELSE a.n * b.d <= b.n * a.d
\* a + b
Plus(a, b) ==
  IF IsNaN(a) \/ IsNaN(b) THEN NaN
  ELSE IF ~IsFinite(a) \/ ~IsFinite(b) THEN NegInf
  ELSE LET g == Gcd(a.d, b.d)
       IN Num(a.n * (b.d \div g) + b.n * (a.d \div g), (a.d \div g) * b.d)
\* a / k, k a positive integer
DivBy(a, k) == IF IsFinite(a) THEN Num(a.n, a.d * k) ELSE a
\* 1 - q / n
OneMinusRatio(q, n) ==
  IF n = 0 THEN (IF q = 0 THEN NaN ELSE NegInf) ELSE Num(n - q, n)
\* 1 - 0.001
Nudged == Num(1000 - NudgePerMille, 1000)

Min(a, b) == IF a < b THEN a ELSE b

(***************************************************************************)
(* A layer print status: [progress, canvas|null, loadErrorUrl|undefined].  *)
(***************************************************************************)
Tuple(p, c, e) == [progress |-> p, canvas |-> c, error |-> e]

VARIABLES
  isWorker,          \* isWorker(): the printer runs in a worker
  layers,            \* spec.layers: [type, tiled, tiles]; tiles is the number
                     \* of tiles the initial render of the layer needs
  phase,             \* "create", "subscribe", "run"
  nextLayer,         \* the layer created / subscribed next
  queuedElements,    \* tileQueue.queuedElements_: queued tiles, per owning layer
  tilesLoading,      \* tileQueue.tilesLoading_
  tileRequests,      \* tile image requests that have not settled, per layer
  tileCount,         \* createTiledLayer: tileCount
  tileLoadErrorUrl,  \* createTiledLayer: tileLoadErrorUrl is set
  tileFailed,        \* a tile request of the layer has failed
  imageState,        \* ImageWMS image: "none", "loading", "loaded", "error"
  onceListeners,     \* the once() listeners still registered on the source
  xhrState,          \* WFS request: "none", "pending", "ok", "failed", "threw"
  wfsRequests,       \* WFS requests sent
  drawn,             \* the layer's canvas holds a rendered frame
  throttle,          \* throttleTime(500): [throttled, trailing, ticks]
  out,               \* <<last tuple delivered by the layer stream>> or <<>>
  seq,               \* flips on every delivery of the layer stream
  ones,              \* tuples with progress 1 delivered (counted up to 2)
  done,              \* the layer stream has completed
  finishOrder,       \* the layers in the order their streams completed
  jobProgress,       \* job.progress
  jobStatus,         \* job.status
  composite,         \* the layers in the order they were drawn on the output
  statusOut,         \* <<last status of getJobStatus(id)>> or <<>>
  statusSeq,         \* flips on every emission of getJobStatus(id)
  statusOnes,        \* statuses with progress 1 emitted (counted up to 2)
  statusDone,        \* the stream of getJobStatus(id) has completed
  layerArg,          \* <<the layerSpec handed to one call of createLayer>>
  task,              \* <<what that call built>>, <<>> before the call
  calls,             \* the calls of print and queuePrint, in the order made;
                     \* the n-th call sends the n-th job request
  announced,         \* the jobs announced on newJob$ so far
  finishedJobs,      \* the jobs whose status stream has ended
  scaleBarArg,       \* <<[units, pointResolution] of one call of printScaleBar>>
  scaleBarOut,       \* <<what that call did>>, <<>> before the call
  search             \* <<the search loop of getScaleBarParams>> when it is
                     \* followed iteration by iteration, <<>> before it

createVars == <<layerArg, task>>
apiVars == <<calls, announced, finishedJobs>>
scaleBarVars == <<scaleBarArg, scaleBarOut, search>>
inputVars == <<isWorker, layers, createVars, apiVars, scaleBarVars>>
ctlVars == <<phase, nextLayer>>
queueVars == <<queuedElements, tilesLoading, tileRequests>>
tiledVars == <<tileCount, tileLoadErrorUrl, tileFailed>>
imageVars == <<imageState, onceListeners>>
wfsVars == <<xhrState, wfsRequests>>
jobVars == <<jobProgress, jobStatus, composite, statusOut, statusSeq,
             statusOnes, statusDone>>
streamVars == <<out, seq, ones, done, finishOrder, jobVars>>
jobModelVars == <<isWorker, layers, ctlVars, queueVars, tiledVars, imageVars,
                  wfsVars, drawn, throttle, streamVars>>
vars == <<inputVars, ctlVars, queueVars, tiledVars, imageVars, wfsVars,
          drawn, throttle, streamVars>>

Layers == DOMAIN layers

RECURSIVE SumTo(_, _)
SumTo(f, n) == IF n = 0 THEN 0 ELSE f[n] + SumTo(f, n - 1)
Total(f) == SumTo(f, Len(layers))

(***************************************************************************)
(* createLayer: the switch on layerSpec.type, and createLayerWMS's test of *)
(* layerSpec.tiled.                                                        *)
(***************************************************************************)
createLayer(layerSpec) ==
  CASE layerSpec.type = "XYZ" -> "tiled"
    [] layerSpec.type = "WMS" -> IF layerSpec.tiled THEN "tiled" ELSE "image"
    [] layerSpec.type = "WMTS" -> "tiled"
    [] layerSpec.type = "WFS" -> "vector"
    [] OTHER -> "none"

Variant(l) == createLayer(layers[l])

\* the layers a print spec is drawn from: an XYZ layer of up to maxTiles
\* tiles, a tiled WMS layer of more tiles than one tick starts, a WMS layer
\* printed as one image, and a WFS layer
LayerSpecs(maxTiles) ==
  {[type |-> "XYZ", tiled |-> FALSE, tiles |-> n] : n \in 0..maxTiles}
  \cup {[type |-> "WMS", tiled |-> TRUE, tiles |-> maxTiles + MaxNewLoads]}
  \cup {[type |-> "WMS", tiled |-> FALSE, tiles |-> 0],
        [type |-> "WFS", tiled |-> FALSE, tiles |-> 0]}

SeqsUpTo(S, n) == UNION {[1..k -> S] : k \in 1..n}

NoThrottle == [throttled |-> FALSE, trailing |-> <<>>, ticks |-> 0]

\* no call of createLayer is followed on its own
NoCreate == layerArg = <<>> /\ task = <<>>

\* the job before its layer tasks are created
JobInit(specs) ==
  /\ isWorker \in BOOLEAN
  /\ layers \in specs
  /\ phase = "create"
  /\ nextLayer = 1
  /\ queuedElements = [l \in Layers |-> 0]
  /\ tilesLoading = 0
  /\ tileRequests = [l \in Layers |-> 0]
  /\ tileCount = [l \in Layers |-> 0]
  /\ tileLoadErrorUrl = [l \in Layers |-> FALSE]
  /\ tileFailed = [l \in Layers |-> FALSE]
  /\ imageState = [l \in Layers |-> "none"]
  /\ onceListeners = [l \in Layers |-> {}]
  /\ xhrState = [l \in Layers |-> "none"]
  /\ wfsRequests = [l \in Layers |-> 0]
  /\ drawn = [l \in Layers |-> FALSE]
  /\ throttle = [l \in Layers |-> NoThrottle]
  /\ out = [l \in Layers |-> <<>>]
  /\ seq = [l \in Layers |-> 0]
  /\ ones = [l \in Layers |-> 0]
  /\ done = [l \in Layers |-> FALSE]
  /\ finishOrder = <<>>
  /\ jobProgress = Zero
  /\ jobStatus = "pending"
  /\ composite = <<>>
  /\ statusOut = <<>>
  /\ statusSeq = 0
  /\ statusOnes = 0
  /\ statusDone = FALSE

\* no call of print or queuePrint is followed
NoApi == calls = <<>> /\ announced = 0 /\ finishedJobs = {}

\* no call of printScaleBar is followed
NoScaleBar == scaleBarArg = <<>> /\ scaleBarOut = <<>> /\ search = <<>>

InitWith(specs) == JobInit(specs) /\ NoCreate /\ NoApi /\ NoScaleBar

Init == InitWith(SeqsUpTo(LayerSpecs(MaxTiles), MaxLayers))


(***************************************************************************)
(* Progress Aggregator and Compositor of the job (spec sections 4.4, 4.5). *)
(***************************************************************************)
RECURSIVE SumProgress(_, _)
SumProgress(o, n) ==
  IF n = 0 THEN Zero ELSE Plus(o[n][1].progress, SumProgress(o, n - 1))

\* every layer's latest tuple is its terminal tuple
AllReady(o) == \A l \in Layers : IsOne(o[l][1].progress)

\* arithmetic mean of the layers' latest progress; 1 only when all are ready
JobProgress(o) ==
  IF AllReady(o) THEN One ELSE DivBy(SumProgress(o, Len(layers)), Len(layers))

\* (a compositor drawing each surface as its layer finishes)
ComposeAsFinished(finished) == finished

\* the surfaces are drawn in the order of spec.layers, whatever the order
\* in which the layers finished
Compose(finished) == [i \in 1..Len(layers) |-> i]

(***************************************************************************)
(* getJobStatus: takeWhile((job) => job.progress < 1, true).               *)
(***************************************************************************)
StatusContinues(st) == Lt(st.progress, One)

getJobStatus(st) ==
  IF statusDone
  THEN UNCHANGED <<statusOut, statusSeq, statusOnes, statusDone>>
  ELSE /\ statusOut' = <<st>>
       /\ statusSeq' = 1 - statusSeq
       /\ statusOnes' = IF IsOne(st.progress)
                        THEN Min(statusOnes + 1, 2) ELSE statusOnes
       /\ statusDone' = ~StatusContinues(st)

\* the job's reaction to the layers' latest tuples o
Aggregate(o) ==
  IF jobStatus = "finished" \/ \E l \in Layers : o[l] = <<>>
  THEN UNCHANGED jobVars
  ELSE LET p == JobProgress(o)
           st == [progress |-> p,
                  status |-> IF IsOne(p) THEN "finished" ELSE "ongoing",
                  image |-> IsOne(p)]
       IN /\ jobProgress' = p
          /\ jobStatus' = st.status
          /\ composite' = IF IsOne(p) THEN Compose(finishOrder') ELSE composite
          /\ getJobStatus(st)

(***************************************************************************)
(* A layer stream delivers tuple t to its subscriber (the job), and        *)
(* completes when `completes`.                                             *)
(***************************************************************************)
Emit(l, t, completes) ==
  /\ out' = [out EXCEPT ![l] = <<t>>]
  /\ seq' = [seq EXCEPT ![l] = 1 - @]
  /\ ones' = [ones EXCEPT ![l] = IF IsOne(t.progress) THEN Min(@ + 1, 2) ELSE @]
  /\ done' = [done EXCEPT ![l] = completes]
  /\ finishOrder' = IF completes THEN Append(finishOrder, l) ELSE finishOrder
  /\ Aggregate(out')

(***************************************************************************)
(* BehaviorSubject: next(t) and complete() are ignored once stopped.       *)
(***************************************************************************)
SubjectNextComplete(l, t) ==
  IF done[l] THEN UNCHANGED streamVars ELSE Emit(l, t, TRUE)

(***************************************************************************)
(* createTiledLayer.                                                       *)
(***************************************************************************)
\* (loadMoreTiles without the test of tilesLoading_ < maxTotalLoading)
loadMoreTilesNoCeiling(maxTotalLoading, maxNewLoads) ==
  LET k == Min(maxNewLoads, Total(queuedElements))
  IN {take \in [Layers -> 0..k] :
        /\ Total(take) = k
        /\ \A l \in Layers : take[l] <= queuedElements[l]}

\* tileQueue.loadMoreTiles(maxTotalLoading, maxNewLoads): the tiles started,
\* per owning layer (the order of equal priorities is not fixed)
loadMoreTiles(maxTotalLoading, maxNewLoads) ==
  LET room == IF tilesLoading < maxTotalLoading
              THEN maxTotalLoading - tilesLoading ELSE 0
      k == Min(Min(room, maxNewLoads), Total(queuedElements))
  IN {take \in [Layers -> 0..k] :
        /\ Total(take) = k
        /\ \A l \in Layers : take[l] <= queuedElements[l]}

\* (the map() without the test of getTilesLoading() > 0)
progressTupleNoNudge(l, queued, loading) ==
  LET progress == OneMinusRatio(queued, tileCount[l])
  IN IF IsOne(progress)
     THEN Tuple(One, TRUE, tileLoadErrorUrl[l])
     ELSE Tuple(progress, FALSE, tileLoadErrorUrl[l])

\* the map() of the stream: queued and loading are the queue's counts
progressTuple(l, queued, loading) ==
  LET raw == OneMinusRatio(queued, tileCount[l])
      progress == IF IsOne(raw) /\ loading > 0 THEN Nudged ELSE raw
  IN IF IsOne(progress)
     THEN Tuple(One, TRUE, tileLoadErrorUrl[l])
     ELSE Tuple(progress, FALSE, tileLoadErrorUrl[l])

\* throttleTime(500, undefined, {leading: true, trailing: true}) receives t;
\* the source completes right after when `completes`
throttleNext(l, t, completes) ==
  IF throttle[l].throttled
  THEN IF completes
       THEN /\ Emit(l, t, TRUE)
            /\ throttle' = [throttle EXCEPT ![l] = NoThrottle]
       ELSE /\ throttle' = [throttle EXCEPT ![l].trailing = <<t>>,
                                            ![l].ticks = @ + 1]
            /\ UNCHANGED streamVars
  ELSE /\ Emit(l, t, completes)
       /\ throttle' = [throttle EXCEPT ![l] =
            [throttled |-> ~completes, trailing |-> <<>>, ticks |-> 0]]

\* one value of startWith(true) / interval(500) through takeWhile, map and
\* throttleTime
tick(l) ==
  \E take \in loadMoreTiles(MaxTotalLoading, MaxNewLoads) :
    LET queued == [i \in Layers |-> queuedElements[i] - take[i]]
        loading == tilesLoading + Total(take)
        t == progressTuple(l, Total(queued), loading)
    IN /\ queuedElements' = queued
       /\ tilesLoading' = loading
       /\ tileRequests' = [i \in Layers |-> tileRequests[i] + take[i]]
       /\ drawn' = IF IsOne(t.progress) THEN [drawn EXCEPT ![l] = TRUE] ELSE drawn
       /\ throttleNext(l, t, loading = 0)

(***************************************************************************)
(* The job creates its layer tasks in the order of spec.layers.            *)
(***************************************************************************)
Advance(i, after) ==
  IF i < Len(layers)
  THEN /\ nextLayer' = i + 1
       /\ phase' = phase
  ELSE /\ nextLayer' = 1
       /\ phase' = after

CreateTiled(i) ==
  /\ phase = "create" /\ nextLayer = i /\ Variant(i) = "tiled"
  /\ queuedElements' = [queuedElements EXCEPT ![i] = layers[i].tiles]
  /\ tileCount' = [tileCount EXCEPT ![i] = Total(queuedElements')]
  /\ Advance(i, "subscribe")
  /\ UNCHANGED <<inputVars, tilesLoading, tileRequests, tileLoadErrorUrl,
                 tileFailed, imageVars, wfsVars, drawn, throttle, streamVars>>

CreateImage(i) ==
  /\ phase = "create" /\ nextLayer = i /\ Variant(i) = "image"
  /\ onceListeners' = [onceListeners EXCEPT
                         ![i] = {"imageloaderror", "imageloadend"}]
  /\ imageState' = [imageState EXCEPT ![i] = "loading"]
  /\ Advance(i, "subscribe")
  /\ UNCHANGED <<inputVars, queueVars, tiledVars, wfsVars, drawn, throttle,
                 streamVars>>

CreateVector(i) ==
  /\ phase = "create" /\ nextLayer = i /\ Variant(i) = "vector"
  /\ xhrState' = [xhrState EXCEPT ![i] = "pending"]
  /\ wfsRequests' = [wfsRequests EXCEPT ![i] = @ + 1]
  /\ Advance(i, "subscribe")
  /\ UNCHANGED <<inputVars, queueVars, tiledVars, imageVars, drawn, throttle,
                 streamVars>>

(***************************************************************************)
(* The job subscribes to the layer streams in the order of spec.layers.    *)
(***************************************************************************)
SubscribeTiled(i) ==
  /\ phase = "subscribe" /\ nextLayer = i /\ Variant(i) = "tiled"
  /\ tick(i)
  /\ Advance(i, "run")
  /\ UNCHANGED <<inputVars, tiledVars, imageVars, wfsVars>>

SubscribeSubject(i) ==
  /\ phase = "subscribe" /\ nextLayer = i /\ Variant(i) \in {"image", "vector"}
  /\ Emit(i, Tuple(Zero, FALSE, FALSE), FALSE)
  /\ Advance(i, "run")
  /\ UNCHANGED <<inputVars, queueVars, tiledVars, imageVars, wfsVars, drawn,
                 throttle>>

(***************************************************************************)
(* Tiled layers while the job runs.                                        *)
(***************************************************************************)
\* interval(500) fires
Tick(l) ==
  /\ phase = "run" /\ Variant(l) = "tiled" /\ ~done[l]
  /\ throttle[l].throttled => throttle[l].ticks < MaxTicksPerWindow
  /\ tick(l)
  /\ UNCHANGED <<inputVars, ctlVars, tiledVars, imageVars, wfsVars>>

\* the timer of throttleTime fires
ThrottleTimer(l) ==
  /\ phase = "run" /\ Variant(l) = "tiled" /\ ~done[l]
  /\ throttle[l].throttled
  /\ IF throttle[l].trailing # <<>>
     THEN Emit(l, throttle[l].trailing[1], FALSE)
     ELSE UNCHANGED streamVars
  /\ throttle' = [throttle EXCEPT ![l] = NoThrottle]
  /\ UNCHANGED <<inputVars, ctlVars, queueVars, tiledVars, imageVars,
                 wfsVars, drawn>>

\* a tile image has loaded: the tile is LOADED, the queue counts it finished
TileLoads(l) ==
  /\ phase = "run" /\ tileRequests[l] > 0
  /\ tileRequests' = [tileRequests EXCEPT ![l] = @ - 1]
  /\ tilesLoading' = tilesLoading - 1
  /\ UNCHANGED <<inputVars, ctlVars, queuedElements, tiledVars, imageVars,
                 wfsVars, drawn, throttle, streamVars>>

\* a tile image request fails. In the page the image's error event puts the
\* tile in ERROR: the queue counts it finished and the source fires
\* tileloaderror. The worker's Image registers no error listener and its
\* promise chain has no catch: nothing happens.
errorEventFires == ~isWorker

TileFails(l) ==
  /\ phase = "run" /\ tileRequests[l] > 0
  /\ tileRequests' = [tileRequests EXCEPT ![l] = @ - 1]
  /\ tileFailed' = [tileFailed EXCEPT ![l] = TRUE]
  /\ IF errorEventFires
     THEN /\ tilesLoading' = tilesLoading - 1
          /\ tileLoadErrorUrl' = [tileLoadErrorUrl EXCEPT ![l] = TRUE]
     ELSE UNCHANGED <<tilesLoading, tileLoadErrorUrl>>
  /\ UNCHANGED <<inputVars, ctlVars, queuedElements, tileCount, imageVars,
                 wfsVars, drawn, throttle, streamVars>>


(***************************************************************************)
(* createLayerWMS, not tiled: one image, two once() listeners.             *)
(***************************************************************************)
\* (the handler without its progress$.complete())
onImageLoadEndNoComplete(l) ==
  /\ onceListeners' = [onceListeners EXCEPT ![l] = @ \ {"imageloadend"}]
  /\ drawn' = [drawn EXCEPT ![l] = TRUE]
  /\ IF done[l] THEN UNCHANGED streamVars
     ELSE Emit(l, Tuple(One, TRUE, FALSE), FALSE)

\* once('imageloadend'): prepareFrame, renderFrame, next([1, canvas]), complete
onImageLoadEnd(l) ==
  /\ onceListeners' = [onceListeners EXCEPT ![l] = @ \ {"imageloadend"}]
  /\ drawn' = [drawn EXCEPT ![l] = TRUE]
  /\ SubjectNextComplete(l, Tuple(One, TRUE, FALSE))

\* (the handler emitting null in place of the canvas)
onImageLoadErrorNoCanvas(l) ==
  /\ onceListeners' = [onceListeners EXCEPT ![l] = @ \ {"imageloaderror"}]
  /\ drawn' = drawn
  /\ SubjectNextComplete(l, Tuple(One, FALSE, TRUE))

\* once('imageloaderror'): next([1, canvas, url]), complete
onImageLoadError(l) ==
  /\ onceListeners' = [onceListeners EXCEPT ![l] = @ \ {"imageloaderror"}]
  /\ drawn' = drawn
  /\ SubjectNextComplete(l, Tuple(One, TRUE, TRUE))

ImageLoads(l) ==
  /\ phase = "run" /\ imageState[l] = "loading"
  /\ imageState' = [imageState EXCEPT ![l] = "loaded"]
  /\ onImageLoadEnd(l)
  /\ UNCHANGED <<inputVars, ctlVars, queueVars, tiledVars, wfsVars, throttle>>

ImageFails(l) ==
  /\ phase = "run" /\ imageState[l] = "loading"
  /\ imageState' = [imageState EXCEPT ![l] = "error"]
  /\ IF errorEventFires
     THEN onImageLoadError(l)
     ELSE UNCHANGED <<onceListeners, drawn, streamVars>>
  /\ UNCHANGED <<inputVars, ctlVars, queueVars, tiledVars, wfsVars, throttle>>

\* the source fires the other image event after the first one
LateImageLoadEnd(l) ==
  /\ phase = "run" /\ imageState[l] = "error"
  /\ "imageloadend" \in onceListeners[l]
  /\ "imageloaderror" \notin onceListeners[l]
  /\ onImageLoadEnd(l)
  /\ UNCHANGED <<inputVars, ctlVars, queueVars, tiledVars, imageState,
                 wfsVars, throttle>>

LateImageLoadError(l) ==
  /\ phase = "run" /\ imageState[l] = "loaded"
  /\ "imageloaderror" \in onceListeners[l]
  /\ errorEventFires
  /\ onImageLoadError(l)
  /\ UNCHANGED <<inputVars, ctlVars, queueVars, tiledVars, imageState,
                 wfsVars, throttle>>

(***************************************************************************)
(* createLayerWFS: the loader's XMLHttpRequest.                            *)
(***************************************************************************)
\* (onError without the layer's url in the tuple)
onErrorNoUrl(l) ==
  /\ drawn' = drawn
  /\ wfsRequests' = wfsRequests
  /\ SubjectNextComplete(l, Tuple(One, TRUE, FALSE))

\* onError: removeLoadedExtent, next([1, canvas, layerSpec.url]), complete;
\* nothing calls the loader again
onError(l) ==
  /\ drawn' = drawn
  /\ wfsRequests' = wfsRequests
  /\ SubjectNextComplete(l, Tuple(One, TRUE, TRUE))

\* xhr.onload with a response of status 200 that parses
XhrLoads(l) ==
  /\ phase = "run" /\ xhrState[l] = "pending"
  /\ xhrState' = [xhrState EXCEPT ![l] = "ok"]
  /\ drawn' = [drawn EXCEPT ![l] = TRUE]
  /\ wfsRequests' = wfsRequests
  /\ SubjectNextComplete(l, Tuple(One, TRUE, FALSE))
  /\ UNCHANGED <<inputVars, ctlVars, queueVars, tiledVars, imageVars, throttle>>

\* xhr.onload with a response of status 200 that readFeatures throws on:
\* the exception leaves the handler before next() and complete()
XhrUnparsable(l) ==
  /\ phase = "run" /\ xhrState[l] = "pending"
  /\ xhrState' = [xhrState EXCEPT ![l] = "threw"]
  /\ UNCHANGED <<inputVars, ctlVars, queueVars, tiledVars, imageVars,
                 wfsRequests, drawn, throttle, streamVars>>

\* xhr.onload with another status, or xhr.onerror
XhrFails(l) ==
  /\ phase = "run" /\ xhrState[l] = "pending"
  /\ xhrState' = [xhrState EXCEPT ![l] = "failed"]
  /\ onError(l)
  /\ UNCHANGED <<inputVars, ctlVars, queueVars, tiledVars, imageVars, throttle>>

(***************************************************************************)
(* One call of createLayer, followed from the layerSpec it is given to the *)
(* source, the frame state and the first request it builds.  A property    *)
(* the layerSpec may lack is <<>> when undefined and <<v>> when given.     *)
(* Opacities are in hundredths.                                            *)
(***************************************************************************)
FullOpacity == 100

\* setFrameState: layerStatesArray[0].opacity
setFrameState(opacity) ==
  IF opacity # <<>> THEN opacity[1] ELSE FullOpacity

\* URLSearchParams.set(name, value)
SearchParamsSet(query, name, value) ==
  [n \in DOMAIN query \cup {name} |-> IF n = name THEN value ELSE query[n]]

NoQuery == [n \in {} |-> <<>>]

\* baseUrl.substring(0, 4) === 'http'
IsHttp(baseUrl) == baseUrl \in {"http://host/wfs", "https://host/wfs"}

\* generateGetFeatureUrl: the url as its base and its query parameters
generateGetFeatureUrl(baseUrl, wfsVersion, layerName, format, projCode, extent) ==
  IF ~IsHttp(baseUrl)
  THEN [base |-> baseUrl, query |-> NoQuery]
  ELSE LET typeNameLabel ==
             IF wfsVersion = "2.0.0" THEN "typenames" ELSE "typename"
           q1 == SearchParamsSet(NoQuery, "SERVICE", <<"WFS">>)
           q2 == SearchParamsSet(q1, "version", <<wfsVersion>>)
           q3 == SearchParamsSet(q2, "request", <<"GetFeature">>)
           q4 == SearchParamsSet(q3, typeNameLabel, <<layerName>>)
           q5 == SearchParamsSet(q4, "srsName", <<projCode>>)
           q6 == SearchParamsSet(q5, "bbox", <<extent, projCode>>)
           q7 == IF format = "geojson"
                 THEN SearchParamsSet(q6, "outputFormat", <<"application/json">>)
                 ELSE q6
       IN [base |-> baseUrl, query |-> q7]

NoUrl == [base |-> "", query |-> NoQuery]

\* what one call of createLayer has built
Task(kind, opacity, matrixIds, extent, url) ==
  [kind |-> kind, opacity |-> opacity, matrixIds |-> matrixIds,
   extent |-> extent, url |-> url,
   started |-> kind # "undefined",   \* a render or a request has started
   error |-> FALSE]                  \* an error was logged or thrown

\* createTiledLayer: the frame state of the tile layer
createTiledLayer(matrixIds, extent, opacity) ==
  Task("tiled", setFrameState(opacity), matrixIds, extent, NoUrl)

createLayerXYZ(ls) == createTiledLayer(<<>>, "", ls.opacity)

createLayerWMS(ls) ==
  IF ls.tiled
  THEN createTiledLayer(<<>>, "", ls.opacity)
  ELSE Task("image", setFrameState(ls.opacity), <<>>, "", NoUrl)

\* (matrix ids counted from 1)
matrixIdsFromOne(resolutions) == [i \in 1..resolutions |-> i]

\* [...Array(resolutions.length).keys()]
matrixIdsOf(resolutions) == [i \in 1..resolutions |-> i - 1]

createLayerWMTS(ls) ==
  LET extent == IF ls.extent # <<>> THEN ls.extent[1] ELSE "extentFromProjection"
      matrixIds == IF ls.matrixIds # <<>> THEN ls.matrixIds[1]
                   ELSE matrixIdsOf(ls.resolutions)
  IN createTiledLayer(matrixIds, extent, ls.opacity)

\* createLayerWFS: prepareFrame runs the loader, which builds the url of
\* the request and sends it; setFrameState is called without an opacity
createLayerWFS(ls) ==
  LET version == IF ls.version # <<>> THEN ls.version[1] ELSE "1.1.0"
      requestUrl == generateGetFeatureUrl(ls.url, version, ls.layer, ls.format,
                                          "EPSG:3857", "frameExtent")
  IN Task("vector", setFrameState(<<>>), <<>>, "", requestUrl)

\* the switch of createLayer; it has no default case
createLayerTask(ls) ==
  CASE ls.type = "XYZ" -> createLayerXYZ(ls)
    [] ls.type = "WMS" -> createLayerWMS(ls)
    [] ls.type = "WMTS" -> createLayerWMTS(ls)
    [] ls.type = "WFS" -> createLayerWFS(ls)
    [] OTHER -> Task("undefined", FullOpacity, <<>>, "", NoUrl)

\* the layerSpecs one call is followed for
MaxResolutions == 3
Opacities == {<<>>, <<0>>, <<50>>, <<FullOpacity>>}
Versions == {<<>>, <<"1.0.0">>, <<"1.1.0">>, <<"2.0.0">>, <<"2.0.2">>}

LayerArg(type, tiled, opacity, resolutions, matrixIds, extent, version, format, url) ==
  [type |-> type, tiled |-> tiled, opacity |-> opacity, layer |-> "roads",
   resolutions |-> resolutions, matrixIds |-> matrixIds, extent |-> extent,
   version |-> version, format |-> format, url |-> url]

LayerArgs ==
  {LayerArg(type, FALSE, o, 0, <<>>, <<>>, <<>>, "", "https://host/tiles") :
     type \in {"XYZ", "GeoJSON"}, o \in Opacities}
  \cup {LayerArg("WMS", t, o, 0, <<>>, <<>>, <<>>, "", "https://host/wms") :
     t \in BOOLEAN, o \in Opacities}
  \cup UNION {{LayerArg("WMTS", FALSE, o, n, m, e, <<>>, "", "https://host/wmts") :
     o \in Opacities, m \in {<<>>, <<[i \in 1..n |-> 10 * i]>>},
     e \in {<<>>, <<"tileGridExtent">>}} : n \in 0..MaxResolutions}
  \cup {LayerArg("WFS", FALSE, o, 0, <<>>, <<>>, v, f, u) :
     o \in Opacities, v \in Versions, f \in {"geojson", "gml"},
     u \in {"https://host/wfs", "/wfs"}}

InitCreate ==
  /\ JobInit({<<>>}) /\ isWorker = FALSE
  /\ layerArg \in {<<ls>> : ls \in LayerArgs}
  /\ task = <<>>
  /\ NoApi /\ NoScaleBar

CreateLayer ==
  /\ layerArg # <<>> /\ task = <<>>
  /\ task' = <<createLayerTask(layerArg[1])>>
  /\ UNCHANGED <<jobModelVars, layerArg, apiVars, scaleBarVars>>

SpecCreate == InitCreate /\ [][CreateLayer]_vars

(***************************************************************************)
(* The public API: print and queuePrint send a job request to the printer  *)
(* and subscribe to newJob$ with take(1).  The printer creates the jobs in *)
(* the order of the requests, with increasing ids, and every new job is    *)
(* announced on newJob$ to the subscribers it has at that moment.          *)
(***************************************************************************)
MaxCalls == 3

\* a call waits for a job (job = 0), then follows job `job`, then has
\* resolved with <<the id>> (queuePrint) or <<the image of the job>> (print)
Call(kind) == [kind |-> kind, job |-> 0, resolved |-> <<>>]

\* newJob$.pipe(take(1), ...) receives job j
takeNewJob(call, j) ==
  IF call.job # 0 THEN call
  ELSE IF call.kind = "queuePrint"
       THEN [call EXCEPT !.job = j, !.resolved = <<j>>]
       ELSE [call EXCEPT !.job = j]

\* print(printSpec)
print ==
  /\ Len(calls) < MaxCalls
  /\ calls' = Append(calls, Call("print"))
  /\ UNCHANGED <<jobModelVars, createVars, scaleBarVars, announced, finishedJobs>>

\* queuePrint(printSpec)
queuePrint ==
  /\ Len(calls) < MaxCalls
  /\ calls' = Append(calls, Call("queuePrint"))
  /\ UNCHANGED <<jobModelVars, createVars, scaleBarVars, announced, finishedJobs>>

\* the printer creates the job of the next request and announces it
AnnounceJob ==
  /\ announced < Len(calls)
  /\ announced' = announced + 1
  /\ calls' = [c \in DOMAIN calls |-> takeNewJob(calls[c], announced + 1)]
  /\ UNCHANGED <<jobModelVars, createVars, scaleBarVars, finishedJobs>>

\* job j finishes: the status stream a print call follows ends with the
\* image of j
JobFinishes(j) ==
  /\ j \in 1..announced /\ j \notin finishedJobs
  /\ finishedJobs' = finishedJobs \cup {j}
  /\ calls' = [c \in DOMAIN calls |->
                 IF calls[c].kind = "print" /\ calls[c].job = j
                 THEN [calls[c] EXCEPT !.resolved = <<j>>] ELSE calls[c]]
  /\ UNCHANGED <<jobModelVars, createVars, scaleBarVars, announced>>

InitApi ==
  /\ JobInit({<<>>}) /\ isWorker = FALSE
  /\ NoCreate /\ NoScaleBar
  /\ NoApi

NextApi ==
  \/ print
  \/ queuePrint
  \/ AnnounceJob
  \/ \E j \in 1..MaxCalls : JobFinishes(j)

SpecApi == InitApi /\ [][NextApi]_vars

(***************************************************************************)
(* printScaleBar.  Numbers are exact fractions (Num); products and         *)
(* comparisons cancel common factors first, to stay within the integers    *)
(* of the model checker.                                                   *)
(***************************************************************************)
MinWidth == 64
LEADING_DIGITS == <<1, 2, 5>>

\* a * b (the factors are bound as values, evaluated once)
Times(a, b) ==
  CHOOSE product \in
    {LET g1 == Gcd(Abs(x.n), y.d)
         g2 == Gcd(Abs(y.n), x.d)
     IN Num((x.n \div g1) * (y.n \div g2), (x.d \div g2) * (y.d \div g1)) :
       x \in {a}, y \in {b}} : TRUE
\* a / b, b > 0
Over(a, b) == Times(a, Num(b.d, b.n))
\* a < b, for finite a and b
Less(a, b) ==
  LET fa == a.n \div a.d
      fb == b.n \div b.d
      g == Gcd(a.d, b.d)
  IN IF fa # fb THEN fa < fb
     ELSE (a.n % a.d) * (b.d \div g) < (b.n % b.d) * (a.d \div g)
\* Math.round(a)
Round(a) == (2 * a.n + a.d) \div (2 * a.d)
\* Math.pow(10, k)
RECURSIVE Pow10(_)
Pow10(k) ==
  IF k = 0 THEN One
  ELSE IF k > 0 THEN Times(Num(10, 1), Pow10(k - 1))
  ELSE Times(Num(1, 10), Pow10(k + 1))
\* Math.floor(Math.log(a) / Math.log(10)), a > 0
RECURSIVE FloorLog10(_)
FloorLog10(a) ==
  IF Less(a, One) THEN FloorLog10(Times(a, Num(10, 1))) - 1
  ELSE IF Less(a, Num(10, 1)) THEN 0
  ELSE FloorLog10(Times(a, Num(1, 10))) + 1
\* a % b of JavaScript: the sign of the result is the sign of a
JsRem(a, b) == IF a >= 0 THEN a % b ELSE 0 - ((0 - a) % b)

\* the unit ladders: the suffix and the point resolution in the unit of
\* the suffix; `logged`: console.error was called
Ladder(suffix, pointResolution) ==
  [suffix |-> suffix, pointResolution |-> pointResolution, logged |-> FALSE]

\* both sides of the tests of the code carry the factor metersPerDegree
ladderDegrees(nominalCount, pointResolution) ==
  IF Less(nominalCount, Num(1, 60))
  THEN Ladder("seconds", Times(pointResolution, Num(3600, 1)))
  ELSE IF Less(nominalCount, One)
  THEN Ladder("minutes", Times(pointResolution, Num(60, 1)))
  ELSE Ladder("degrees", pointResolution)

ladderImperial(nominalCount, pointResolution) ==
  IF Less(nominalCount, Num(9144, 10000))
  THEN Ladder("in", Over(pointResolution, Num(254, 10000)))
  ELSE IF Less(nominalCount, Num(1609344, 1000))
  THEN Ladder("ft", Over(pointResolution, Num(3048, 10000)))
  ELSE Ladder("mi", Over(pointResolution, Num(1609344, 1000)))

ladderNautical(nominalCount, pointResolution) ==
  Ladder("nm", Over(pointResolution, Num(1852, 1)))

ladderMetric(nominalCount, pointResolution) ==
  IF Less(nominalCount, Num(1, 1000))
  THEN Ladder("um", Times(pointResolution, Num(1000000, 1)))
  ELSE IF Less(nominalCount, One)
  THEN Ladder("mm", Times(pointResolution, Num(1000, 1)))
  ELSE IF Less(nominalCount, Num(1000, 1))
  THEN Ladder("m", pointResolution)
  ELSE Ladder("km", Over(pointResolution, Num(1000, 1)))

ladderUs(nominalCount, pointResolution) ==
  IF Less(nominalCount, Num(9144, 10000))
  THEN Ladder("in", Times(pointResolution, Num(3937, 100)))
  ELSE IF Less(nominalCount, Num(1609344, 1000))
  THEN Ladder("ft", Over(pointResolution, Num(30480061, 100000000)))
  ELSE Ladder("mi", Over(pointResolution, Num(16093472, 10000)))

\* the last branch: the error is logged and the function goes on
ladderInvalid(nominalCount, pointResolution) ==
  [suffix |-> "", pointResolution |-> pointResolution, logged |-> TRUE]

\* count and width of step i of the search
CountAt(i) == Times(Num(LEADING_DIGITS[((JsRem(i, 3) + 3) % 3) + 1], 1), Pow10(i \div 3))
WidthAt(i, pointResolution) == Round(Over(CountAt(i), pointResolution))

\* the while (true) loop
RECURSIVE searchFrom(_, _)
searchFrom(i, pointResolution) ==
  IF WidthAt(i, pointResolution) >= MinWidth THEN i
  ELSE searchFrom(i + 1, pointResolution)

\* (the search started a decade above)
startIndexCeil(pointResolution) ==
  3 * (FloorLog10(Times(Num(MinWidth, 1), pointResolution)) + 1)

\* 3 * Math.floor(Math.log(minWidth * pointResolution) / Math.log(10))
startIndex(pointResolution) ==
  3 * FloorLog10(Times(Num(MinWidth, 1), pointResolution))

\* the if / else if chain over the units
unitLadder(units, resolution) ==
  LET u == IF units # <<>> THEN units[1] ELSE "metric"
      nominalCount == Times(Num(MinWidth, 1), resolution)
  IN CASE u = "degrees" -> ladderDegrees(nominalCount, resolution)
       [] u = "imperial" -> ladderImperial(nominalCount, resolution)
       [] u = "nautical" -> ladderNautical(nominalCount, resolution)
       [] u = "metric" -> ladderMetric(nominalCount, resolution)
       [] u = "us" -> ladderUs(nominalCount, resolution)
       [] OTHER -> ladderInvalid(nominalCount, resolution)

\* getScaleBarParams: <<the params>>, or <<>> for undefined
getScaleBarParams(units, resolution) ==
  LET ladder == unitLadder(units, resolution)
      pointResolution == ladder.pointResolution
      found == searchFrom(startIndex(pointResolution), pointResolution)
  IN [logged |-> ladder.logged,
      pointResolution |-> pointResolution,
      params |-> IF pointResolution.n = 0 THEN <<>>   \* isNaN(width)
                 ELSE <<[width |-> WidthAt(found, pointResolution),
                         scalenumber |-> CountAt(found),
                         suffix |-> ladder.suffix]>>]

\* renderScaleBar: reads scaleBarParams.width first, then draws text and bar
renderScaleBar(scaleBarParams) ==
  IF scaleBarParams = <<>> THEN [drawn |-> FALSE, fault |-> TRUE]
  ELSE [drawn |-> TRUE, fault |-> FALSE]

\* the point resolutions one call is followed for; in the range the us
\* units give in feet they are multiples of the us foot, which keeps the
\* quotient by 0.30480061 small
Resolutions ==
  {Num(1, 100000), Num(1, 1000), Num(1, 100), Num(1, 64), Num(1, 10),
   Num(25, 318), Num(5, 32), Num(1, 3), One, Num(3, 2), Num(2, 1), Num(7, 1), Num(125, 8),
   Num(100, 1), Num(1000, 1)}
UsFootResolutions ==
  {Times(r, Num(30480061, 100000000)) :
     r \in {Num(1, 10), One, Num(2, 1), Num(10, 1), Num(50, 1)}}
UnitSettings ==
  {<<>>, <<"metric">>, <<"degrees">>, <<"imperial">>, <<"nautical">>,
   <<"us">>, <<"furlongs">>}
UsResolutions ==
  {r \in Resolutions :
     ladderUs(Times(Num(MinWidth, 1), r), One).suffix # "ft"}
  \cup UsFootResolutions
ScaleBarArgs ==
  {[units |-> u, resolution |-> r] :
     u \in UnitSettings \ {<<"us">>}, r \in Resolutions}
  \cup {[units |-> <<"us">>, resolution |-> r] : r \in UsResolutions}

InitScaleBar ==
  /\ JobInit({<<>>}) /\ isWorker = FALSE
  /\ NoCreate /\ NoApi
  /\ scaleBarArg \in {<<a>> : a \in ScaleBarArgs}
  /\ scaleBarOut = <<>>
  /\ search = <<>>

printScaleBar ==
  /\ scaleBarArg # <<>> /\ scaleBarOut = <<>>
  /\ LET got == getScaleBarParams(scaleBarArg[1].units, scaleBarArg[1].resolution)
         rendered == renderScaleBar(got.params)
     IN scaleBarOut' = <<[params |-> got.params,
                          pointResolution |-> got.pointResolution,
                          logged |-> got.logged,
                          drawn |-> rendered.drawn,
                          fault |-> rendered.fault]>>
  /\ UNCHANGED <<jobModelVars, createVars, apiVars, scaleBarArg, search>>

SpecScaleBar == InitScaleBar /\ [][printScaleBar]_vars

(***************************************************************************)
(* The search loop of getScaleBarParams, one iteration per step, for every *)
(* number a point resolution can be: beside the fractions, NaN, Infinity   *)
(* and -Infinity (d = 0) and Number.MAX_VALUE (d = -1), the largest finite *)
(* number, whose product with a factor above 1 is Infinity.                *)
(***************************************************************************)
PosInf == Num(1, 0)
MAX_VALUE == [n |-> 1, d |-> -1]

\* the iterations one search is followed for
MaxIterations == 5

\* pointResolution after the unit ladder.  A product or quotient of NaN or
\* of an infinity by a positive constant is the value itself; MAX_VALUE is
\* followed through the branches that leave pointResolution as it is.
ladderPointResolution(units, resolution) ==
  IF resolution.d > 0 THEN unitLadder(units, resolution).pointResolution
  ELSE resolution

\* minWidth * pointResolution
minWidthTimes(pointResolution) ==
  IF pointResolution.d > 0 THEN Times(Num(MinWidth, 1), pointResolution)
  ELSE IF pointResolution = MAX_VALUE THEN PosInf
  ELSE pointResolution

\* let i = 3 * Math.floor(Math.log(minWidth * pointResolution) / Math.log(10)):
\* Math.log is NaN below 0, -Infinity at 0 and Infinity at Infinity
initialIndex(pointResolution) ==
  LET a == minWidthTimes(pointResolution)
  IN IF a.d = 0 THEN (IF a = PosInf THEN PosInf ELSE NaN)
     ELSE IF a.n < 0 THEN NaN
     ELSE IF a.n = 0 THEN NegInf
     ELSE Num(startIndex(pointResolution), 1)

\* width of one iteration: for an i that is not finite i % 3 is NaN,
\* LEADING_DIGITS[NaN] is undefined, and count and width are NaN
widthOf(i, pointResolution) ==
  IF i.d = 0 THEN NaN ELSE Num(WidthAt(i.n, pointResolution), 1)

\* ++i
increment(i) == IF i.d = 0 THEN i ELSE Num(i.n + 1, 1)

SearchUnchanged ==
  UNCHANGED <<jobModelVars, createVars, apiVars, scaleBarArg, scaleBarOut>>

\* getScaleBarParams up to the loop
searchBegin ==
  /\ scaleBarArg # <<>> /\ search = <<>>
  /\ LET pointResolution ==
           ladderPointResolution(scaleBarArg[1].units, scaleBarArg[1].resolution)
     IN search' = <<[pointResolution |-> pointResolution,
                     i |-> initialIndex(pointResolution),
                     iterations |-> 0,
                     returned |-> FALSE,
                     params |-> <<>>]>>
  /\ SearchUnchanged

\* (one iteration without the test isNaN(width))
searchIterateNoNaNTest ==
  /\ search # <<>> /\ ~search[1].returned
  /\ LET st == search[1]
         width == widthOf(st.i, st.pointResolution)
     IN IF width.d > 0 /\ width.n >= MinWidth
        THEN search' = <<[st EXCEPT !.iterations = @ + 1,
                                    !.returned = TRUE,
                                    !.params = <<[width |-> width.n,
                                                  scalenumber |-> CountAt(st.i.n)]>>]>>
        ELSE /\ st.iterations < MaxIterations
             /\ search' = <<[st EXCEPT !.iterations = @ + 1,
                                       !.i = increment(@)]>>
  /\ SearchUnchanged

\* one iteration of while (true): return on NaN, break on width >= minWidth,
\* ++i otherwise
searchIterate ==
  /\ search # <<>> /\ ~search[1].returned
  /\ LET st == search[1]
         width == widthOf(st.i, st.pointResolution)
     IN IF IsNaN(width)
        THEN search' = <<[st EXCEPT !.iterations = @ + 1, !.returned = TRUE]>>
        ELSE IF width.n >= MinWidth
        THEN search' = <<[st EXCEPT !.iterations = @ + 1,
                                    !.returned = TRUE,
                                    !.params = <<[width |-> width.n,
                                                  scalenumber |-> CountAt(st.i.n)]>>]>>
        ELSE /\ st.iterations < MaxIterations
             /\ search' = <<[st EXCEPT !.iterations = @ + 1,
                                       !.i = increment(@)]>>
  /\ SearchUnchanged

\* the point resolutions that are no positive fraction
SpecialResolutions ==
  {Zero, Num(-1, 1000), Num(-3, 2), Num(-7, 1), NaN, PosInf, NegInf}
SearchArgs ==
  ScaleBarArgs
  \cup {[units |-> u, resolution |-> r] :
          u \in UnitSettings, r \in SpecialResolutions}
  \cup {[units |-> u, resolution |-> MAX_VALUE] :
          u \in {<<"degrees">>, <<"furlongs">>}}

InitSearch ==
  /\ JobInit({<<>>}) /\ isWorker = FALSE
  /\ NoCreate /\ NoApi
  /\ scaleBarArg \in {<<a>> : a \in SearchArgs}
  /\ scaleBarOut = <<>>
  /\ search = <<>>

NextSearch ==
  \/ searchBegin
  \/ searchIterate

\* a call that has begun goes on to its return
SpecSearch == InitSearch /\ [][NextSearch]_vars /\ WF_vars(NextSearch)

(***************************************************************************)
(* The specification.                                                      *)
(***************************************************************************)
Next ==
  \/ \E l \in Layers : CreateTiled(l)
  \/ \E l \in Layers : CreateImage(l)
  \/ \E l \in Layers : CreateVector(l)
  \/ \E l \in Layers : SubscribeTiled(l)
  \/ \E l \in Layers : SubscribeSubject(l)
  \/ \E l \in Layers : Tick(l)
  \/ \E l \in Layers : ThrottleTimer(l)
  \/ \E l \in Layers : TileLoads(l)
  \/ \E l \in Layers : TileFails(l)
  \/ \E l \in Layers : ImageLoads(l)
  \/ \E l \in Layers : ImageFails(l)
  \/ \E l \in Layers : LateImageLoadEnd(l)
  \/ \E l \in Layers : LateImageLoadError(l)
  \/ \E l \in Layers : XhrLoads(l)
  \/ \E l \in Layers : XhrUnparsable(l)
  \/ \E l \in Layers : XhrFails(l)

Spec == Init /\ [][Next]_vars

(***************************************************************************)
(* One tiled layer of BigTileCount tiles, printed in the page over a       *)
(* network that answers every tile request.                                *)
(***************************************************************************)
InitBig ==
  /\ InitWith({<<[type |-> "XYZ", tiled |-> FALSE, tiles |-> BigTileCount]>>})
  /\ isWorker = FALSE

NextBig ==
  \/ \E l \in Layers : CreateTiled(l)
  \/ \E l \in Layers : SubscribeTiled(l)
  \/ \E l \in Layers : Tick(l)
  \/ \E l \in Layers : ThrottleTimer(l)
  \/ \E l \in Layers : TileLoads(l)

SpecBig == InitBig /\ [][NextBig]_vars

(***************************************************************************)
(* The job under the scheduling the event loop gives: every timer fires,   *)
(* every request settles (with or without success), every step of the      *)
(* job's start is taken.                                                   *)
(***************************************************************************)
InitOne == InitWith(SeqsUpTo(LayerSpecs(MaxTiles), 1))

Fairness ==
  \A l \in 1..MaxLayers :
    /\ WF_vars(l \in Layers /\ (CreateTiled(l) \/ CreateImage(l) \/ CreateVector(l)))
    /\ WF_vars(l \in Layers /\ (SubscribeTiled(l) \/ SubscribeSubject(l)))
    /\ WF_vars(l \in Layers /\ Tick(l))
    /\ WF_vars(l \in Layers /\ ThrottleTimer(l))
    /\ WF_vars(l \in Layers /\ (TileLoads(l) \/ TileFails(l)))
    /\ WF_vars(l \in Layers /\ (ImageLoads(l) \/ ImageFails(l)))
    /\ WF_vars(l \in Layers /\ (XhrLoads(l) \/ XhrUnparsable(l) \/ XhrFails(l)))

FairSpec == InitOne /\ [][Next]_vars /\ Fairness

(***************************************************************************)
(* Properties.                                                             *)
(***************************************************************************)
Emitted(l) == out[l] # <<>>
Last(l) == out[l][1]
\* the stream of l delivers a tuple in this step
Delivers(l) == seq'[l] # seq[l]
\* the stream of l has delivered a tuple with progress 1 and completed
Terminal(l) == done[l] /\ Emitted(l) /\ IsOne(Last(l).progress)

\* C1: when every request of a layer task settles, its stream eventually
\* emits a tuple with progress 1 and completes, for a tiled, a single-image
\* and a vector layer, in the page and in the worker.
C1_EventuallyTerminal == <>(\A l \in Layers : Terminal(l))

\* C2: a completed layer stream has emitted, as its last tuple, a tuple
\* with progress 1 and a canvas.
C2_CompletesOnTerminalTuple ==
  \A l \in Layers : done[l] => Emitted(l) /\ IsOne(Last(l).progress) /\ Last(l).canvas

\* C3: on the status stream of the job the progress never decreases, and
\* the stream ends on its only status with progress 1.
C3_StatusProgress ==
  [][/\ (statusSeq' # statusSeq /\ statusOut # <<>>)
          => ~Lt(statusOut'[1].progress, statusOut[1].progress)
     /\ statusDone' => IsOne(statusOut'[1].progress) /\ statusOnes' = 1]_vars

C5_LayerProgressMonotone ==
  [][\A l \in Layers :
       (Delivers(l) /\ Emitted(l)) => ~Lt(out'[l][1].progress, Last(l).progress)]_vars

\* C6: the progress of every tuple a layer stream delivers is a number
\* from 0 to 1.
C6_ProgressInUnitRange ==
  \A l \in Layers :
    Emitted(l) => Leq(Zero, Last(l).progress) /\ Leq(Last(l).progress, One)

\* C7: the job's progress is 1 only when every layer stream has delivered
\* its terminal tuple, and is strictly below 1 while one has not.
C7_JobProgressOne ==
  /\ IsOne(jobProgress) => \A l \in Layers : Terminal(l)
  /\ (\E l \in Layers : ~Terminal(l)) => Lt(jobProgress, One)

\* an image event reaches the source of l in this step
ImageEvent(l) ==
  ImageLoads(l) \/ ImageFails(l) \/ LateImageLoadEnd(l) \/ LateImageLoadError(l)

C9_WfsFailure ==
  \A l \in Layers :
    /\ wfsRequests[l] <= 1
    /\ xhrState[l] = "failed" =>
         /\ done[l] /\ ones[l] = 1
         /\ Last(l) = Tuple(One, TRUE, TRUE)

C9_Witness == \E l \in Layers : xhrState[l] = "failed" /\ isWorker

\* C10: in a tiled task, every tuple delivered after a tile has failed
\* carries the load error url, and no tuple delivered before does.
C10_ErrorUrlAfterFailure ==
  [][\A l \in Layers :
       (Variant(l) = "tiled" /\ Delivers(l)) =>
          (out'[l][1].error <=> tileFailed[l])]_vars

\* C11: at most 4 tiles of one tiled task are in flight at once, and one
\* tick starts at most 12 new tile loads.
C11_TileLoadLimits ==
  [][/\ \A l \in Layers : tileRequests'[l] <= 4
     /\ Total(tileRequests') - Total(tileRequests) <= 12]_vars

\* C11 (amended): at most 12 tiles of the tile queue are in flight at once,
\* and one tick starts at most 4 new tile loads.
C11_QueueLoadLimits ==
  [][/\ tilesLoading' <= MaxTotalLoading
     /\ Total(tileRequests') <= MaxTotalLoading
     /\ Total(tileRequests') - Total(tileRequests) <= MaxNewLoads]_vars

\* the ceiling is reached with tiles still queued
C11_Witness ==
  /\ tilesLoading = MaxTotalLoading
  /\ Total(tileRequests) = MaxTotalLoading
  /\ Total(queuedElements) > 0

\* a value passes through the stream of another layer than l in this step
OtherLayerTicks(l) ==
  \E m \in Layers \ {l} : Tick(m) \/ SubscribeTiled(m) \/ CreateTiled(m)

\* C12: two tiled tasks of one job have independent coordinator state: the
\* initial tile total of a task counts its own tiles only, and the creation
\* or a tick of another task changes neither its queued nor its in-flight
\* tiles.
C12_IndependentCoordinators ==
  [][\A l \in Layers :
       Variant(l) = "tiled" =>
         /\ tileCount'[l] # tileCount[l] => tileCount'[l] = layers[l].tiles
         /\ OtherLayerTicks(l)
              => UNCHANGED <<queuedElements[l], tileRequests[l]>>]_vars

\* C15: the stream of getJobStatus(id) completes only on a status that is
\* finished and carries the image.
C15_StatusEndsOnFinished ==
  statusDone =>
    /\ statusOut # <<>>
    /\ statusOut[1].status = "finished"
    /\ statusOut[1].image

\* a call of createLayer has returned for a layerSpec of this type
Created(type) == task # <<>> /\ layerArg[1].type = type

\* C13: for every layer type the opacity of the layer's frame state is the
\* opacity of the layerSpec, 0 included, and 1 only when the layerSpec gives
\* none.
C13_OpacityFromSpec ==
  (task # <<>> /\ task[1].kind # "undefined") =>
     task[1].opacity = IF layerArg[1].opacity = <<>> THEN FullOpacity
                       ELSE layerArg[1].opacity[1]

\* C16: createLayer for a type that is none of XYZ, WMS, WMTS, WFS reports
\* a configuration error and starts no render and no request.
C16_UnknownTypeReported ==
  (task # <<>> /\ createLayer(layerArg[1]) = "none") =>
     task[1].error /\ ~task[1].started

\* the version string as numbers
VersionNumber(v) ==
  CASE v = "1.0.0" -> <<1, 0, 0>>
    [] v = "1.1.0" -> <<1, 1, 0>>
    [] v = "2.0.0" -> <<2, 0, 0>>
    [] v = "2.0.2" -> <<2, 0, 2>>

\* a >= b for versions
VersionGeq(a, b) ==
  \/ a[1] > b[1]
  \/ a[1] = b[1] /\ a[2] > b[2]
  \/ a[1] = b[1] /\ a[2] = b[2] /\ a[3] >= b[3]

\* C19: the GetFeature url names the layer in typenames for a version of
\* 2.0.0 or above and in typename below, and carries exactly one of the two.
C19_TypeNamesByVersion ==
  Created("WFS") =>
    LET query == task[1].url.query
        given == layerArg[1].version
        version == IF given # <<>> THEN given[1] ELSE "1.1.0"
    IN /\ ("typenames" \in DOMAIN query)
            <=> VersionGeq(VersionNumber(version), <<2, 0, 0>>)
       /\ ("typename" \in DOMAIN query) <=> ("typenames" \notin DOMAIN query)

\* C20: a WMTS tile grid of n resolutions without matrixIds gets the matrix
\* ids 0, 1, ..., n-1; given matrixIds and a given extent are used as they
\* are, and a missing extent becomes the extent of the projection.
C20_WmtsTileGrid ==
  Created("WMTS") =>
    LET ls == layerArg[1]
    IN /\ ls.matrixIds # <<>> => task[1].matrixIds = ls.matrixIds[1]
       /\ ls.matrixIds = <<>> =>
            /\ Len(task[1].matrixIds) = ls.resolutions
            /\ \A i \in 1..ls.resolutions : task[1].matrixIds[i] = i - 1
       /\ ls.extent # <<>> => task[1].extent = ls.extent[1]
       /\ ls.extent = <<>> => task[1].extent = "extentFromProjection"

C20_Witness ==
  /\ Created("WMTS")
  /\ layerArg[1].matrixIds = <<>> /\ layerArg[1].extent = <<>>
  /\ layerArg[1].resolutions = MaxResolutions

\* C14: every call of print or queuePrint resolves with the job created
\* for its own request (print: with the image of that job), so two calls
\* never resolve with the same job.
C14_ResolvesOwnJob ==
  \A c \in DOMAIN calls : calls[c].resolved # <<>> => calls[c].resolved[1] = c

\* printScaleBar has returned for a units setting getScaleBarParams knows
SupportedUnitsDone ==
  scaleBarOut # <<>> /\ scaleBarArg[1].units # <<"furlongs">>

\* the values 1, 2 and 5 times a power of ten from a hundredth of v up to v
RoundNumbersUpTo(v) ==
  {c \in {Times(Num(m, 1), Pow10(k)) : m \in {1, 2, 5}, k \in -9..5} :
     ~Less(c, Times(v, Num(1, 100))) /\ ~Less(v, c)}

C18_InvalidUnitsOmitted ==
  (scaleBarOut # <<>> /\ scaleBarArg[1].units = <<"furlongs">>) =>
     /\ scaleBarOut[1].logged
     /\ ~scaleBarOut[1].drawn
     /\ ~scaleBarOut[1].fault

\* C21: a tiled task delivers no tuple with progress 1, and no canvas, while
\* one of its tiles is still queued or in flight.
C21_NoTerminalWhileLoading ==
  [][\A l \in Layers :
       (/\ Variant(l) = "tiled" /\ Delivers(l)
        /\ (IsOne(out'[l][1].progress) \/ out'[l][1].canvas))
         => queuedElements'[l] = 0 /\ tileRequests'[l] = 0]_vars

\* the queue is empty, tiles are in flight, and the task has delivered the
\* progress just below 1
C21_Witness ==
  \E l \in Layers :
    /\ Variant(l) = "tiled" /\ Emitted(l) /\ Last(l).progress = Nudged
    /\ ~Last(l).canvas
    /\ Total(queuedElements) = 0 /\ tileRequests[l] > 0

\* C22: every tuple of a layer stream carries a canvas exactly when its
\* progress is 1, and a layer stream delivers at most one tuple with
\* progress 1.
C22_CanvasIffProgressOne ==
  \A l \in Layers :
    /\ Emitted(l) => (Last(l).canvas <=> IsOne(Last(l).progress))
    /\ ones[l] <= 1

\* a tiled, an image and a vector stream have each delivered progress 1
C22_Witness ==
  /\ \E l \in Layers : Variant(l) = "tiled" /\ Terminal(l) /\ Last(l).canvas
  /\ \E l \in Layers : Variant(l) = "image" /\ Terminal(l) /\ Last(l).error

\* the stream of tiled layer l delivers at most one tuple per window of
\* throttleTime: while a window is open only the window's timer delivers
OnePerWindow(l) ==
  Delivers(l) /\ throttle[l].throttled => ThrottleTimer(l)

\* the tuple computed at subscription time is delivered
SubscriptionTupleDelivered(l) ==
  phase = "subscribe" /\ nextLayer = l
    => /\ Delivers(l)
       /\ out'[l][1] = progressTuple(l, Total(queuedElements'), tilesLoading')

\* the tuple computed on the tick that completes the stream is delivered
FinalTupleDelivered(l) ==
  ~done[l] /\ done'[l]
    => /\ Delivers(l)
       /\ out'[l][1] = progressTuple(l, Total(queuedElements'), tilesLoading')

\* C23: a tiled layer stream delivers at most one tuple per 500 ms window,
\* always delivers the tuple computed at subscription time, and always
\* delivers the tuple computed on the tick on which it completes, also when
\* that tick falls inside a throttle window.
C23_ThrottledDelivery ==
  [][\A l \in Layers :
       Variant(l) = "tiled"
         => /\ OnePerWindow(l)
            /\ SubscriptionTupleDelivered(l)
            /\ FinalTupleDelivered(l)]_vars

\* the stream of layer l has been subscribed to: its first tick is past
Subscribed(l) ==
  phase = "run" \/ (phase = "subscribe" /\ nextLayer > l)

\* C24: the number of queued tiles a tiled task observes never increases
\* from its initial render to the tick that completes its stream: the first
\* tick observes no more than the initial render counted, and between the
\* first tick and the completing one nothing is added to the queue the task
\* observes.
C24_QueuedNeverIncreases ==
  [][\A l \in Layers :
       Variant(l) = "tiled"
         => /\ phase = "subscribe" /\ nextLayer = l
                 => Total(queuedElements') <= tileCount[l]
            /\ Subscribed(l) /\ ~done[l]
                 => Total(queuedElements') <= Total(queuedElements)]_vars

\* an exception has left xhr.onload of layer l
ExceptionEscaped(l) == xhrState[l] = "threw"

\* C25: a WFS response of status 200 whose body does not parse is handled
\* like every other load failure: no exception leaves the response handler,
\* and the task has delivered the terminal tuple [1, canvas, url] and
\* completed.
C25_UnparsableIsLoadFailure ==
  \A l \in Layers :
    xhrState[l] \in {"failed", "threw"} =>
      /\ ~ExceptionEscaped(l)
      /\ done[l] /\ Last(l) = Tuple(One, TRUE, TRUE)

SearchReturned == search # <<>> /\ search[1].returned

\* a positive finite point resolution whose product with minWidth is finite
InRange(pointResolution) == pointResolution.d > 0 /\ pointResolution.n > 0

\* the search has stopped with a width of at least 64
StoppedWithWidth ==
  /\ SearchReturned /\ search[1].params # <<>>
  /\ search[1].params[1].width >= MinWidth

\* the search has stopped on its first iteration and returns no params
StoppedAtOnce ==
  SearchReturned /\ search[1].iterations = 1 /\ search[1].params = <<>>

\* C26 as stated: the search ends for every point resolution, with a width
\* of at least 64 when the point resolution is finite and positive, and on
\* its first iteration without params when it is zero, negative, infinite
\* or NaN.
C26_SearchTerminates ==
  <>(/\ search # <<>>
     /\ (InRange(search[1].pointResolution)
           \/ search[1].pointResolution = MAX_VALUE) => StoppedWithWidth
     /\ ~(InRange(search[1].pointResolution)
           \/ search[1].pointResolution = MAX_VALUE) => StoppedAtOnce)

\* C26, amended: the search ends for every point resolution, with a width of
\* at least 64 when the point resolution is finite and positive and 64 times
\* it is finite, and on its first iteration without params when it is zero,
\* negative, infinite, NaN, or so large that 64 times it is infinite.
C26_SearchTerminatesInRange ==
  <>(/\ search # <<>>
     /\ InRange(search[1].pointResolution) => StoppedWithWidth
     /\ ~InRange(search[1].pointResolution) => StoppedAtOnce)

\* the search for Number.MAX_VALUE has returned no params
C26_Witness ==
  /\ StoppedAtOnce
  /\ search[1].pointResolution = MAX_VALUE

=============================================================================
